---- MODULE Spec2Model ----
(***************************************************************************)
(* A model of 22077669.py: the World Bank loader/reshaper                  *)
(* (process_world_bank_data), the four chart builders and the top-level    *)
(* script that calls them in sequence and saves the figure.                *)
(*                                                                         *)
(* Python values are tagged pairs: Str(s) with s the sequence of the       *)
(* string's characters, Float(n), PyInt(n) and NaN.  A DataFrame is a      *)
(* record [columns, index, data]: the column labels, the row labels and    *)
(* the rows (data[i][j] is row i, column j).                                *)
(***************************************************************************)
EXTENDS Integers, Sequences, FiniteSets, TLC

VARIABLES
    file,         \* the content of world_population_data.csv
    pc,           \* the statement of the script that runs next
    world_bank_data,   \* the script's WideTable (line 168)
    transpose,    \* the TransposedTable returned by the loader
    melted,       \* the LongTable local to the builder that ran last
    largest_city_data, \* the pie builder's local, sorted
    top_countries,\* the pie builder's local top_countries
    wedges,       \* the wedge sizes drawn on the pie panel, in order
    calls,        \* the functions invoked so far, in order
    raised,       \* the exception that ended the run, or "none"
    output        \* whether 22077669.png has been written

vars == <<file, pc, world_bank_data, transpose, melted, largest_city_data,
          top_countries, wedges, calls, raised, output>>

-----------------------------------------------------------------------------
(* Bounds of the input families.                                           *)

\* Family A: data rows before the 5 trailing rows.
MaxShapeRows == 2
\* Family B: rows of the largest-city series.
MaxPieRows == 7
\* Family C: data rows with a freely chosen (Country, Series).
MaxMeltRows == 3

-----------------------------------------------------------------------------
(* Python values.                                                           *)

NaN == <<"nan", 0>>
Str(s) == <<"str", s>>
Float(n) == <<"float", n>>
PyInt(n) == <<"int", n>>

IsNaN(v) == v[1] = "nan"
IsStr(v) == v[1] = "str"
IsNumber(v) == v[1] \in {"float", "int"}

Digit == {"0", "1", "2", "3", "4", "5", "6", "7", "8", "9"}

DigitValue(c) ==
    CASE c = "0" -> 0 [] c = "1" -> 1 [] c = "2" -> 2 [] c = "3" -> 3
      [] c = "4" -> 4 [] c = "5" -> 5 [] c = "6" -> 6 [] c = "7" -> 7
      [] c = "8" -> 8 [] c = "9" -> 9

DigitChar(d) ==
    CASE d = 0 -> "0" [] d = 1 -> "1" [] d = 2 -> "2" [] d = 3 -> "3"
      [] d = 4 -> "4" [] d = 5 -> "5" [] d = 6 -> "6" [] d = 7 -> "7"
      [] d = 8 -> "8" [] d = 9 -> "9"

\* str(n) for a natural number n.
RECURSIVE Decimal(_)
Decimal(n) == IF n < 10 THEN <<DigitChar(n)>>
              ELSE Append(Decimal(n \div 10), DigitChar(n % 10))

\* The value of a string of decimal digits.
RECURSIVE DigitsValue(_)
DigitsValue(s) ==
    IF s = <<>> THEN 0
    ELSE 10 * DigitsValue(SubSeq(s, 1, Len(s) - 1)) + DigitValue(s[Len(s)])

IsDigits(s) == Len(s) > 0 /\ \A i \in 1..Len(s) : s[i] \in Digit

\* The text of a number with an optional sign: what int(s) and float(s)
\* accept among the texts of this model (no decimal point, no exponent).
IsSignedDigits(s) ==
    \/ IsDigits(s)
    \/ Len(s) > 1 /\ s[1] \in {"-", "+"} /\ IsDigits(Tail(s))

SignedValue(s) ==
    IF s[1] = "-" THEN 0 - DigitsValue(Tail(s))
    ELSE IF s[1] = "+" THEN DigitsValue(Tail(s))
    ELSE DigitsValue(s)

\* s.split(sep): the fields between the occurrences of the character sep.
RECURSIVE Split(_, _)
Split(s, sep) ==
    IF \A i \in 1..Len(s) : s[i] # sep THEN <<s>>
    ELSE LET k == CHOOSE i \in 1..Len(s) :
                     s[i] = sep /\ \A j \in 1..(i - 1) : s[j] # sep
         IN <<SubSeq(s, 1, k - 1)>> \o Split(SubSeq(s, k + 1, Len(s)), sep)

\* Series.str.isnumeric() on one label.
StrIsNumeric(v) == IsStr(v) /\ IsDigits(v[2])

\* pd.to_numeric on one label that passed isnumeric().
ToNumeric(v) == PyInt(DigitsValue(v[2]))

Contains(seq, x) == \E i \in 1..Len(seq) : seq[i] = x

Position(seq, x) == CHOOSE i \in 1..Len(seq) : seq[i] = x

RECURSIVE SelectIndices(_, _)
\* The indices of seq, ascending, that lie in the set keep.
SelectIndices(n, keep) ==
    IF n = 0 THEN <<>>
    ELSE IF n \in keep THEN Append(SelectIndices(n - 1, keep), n)
    ELSE SelectIndices(n - 1, keep)

-----------------------------------------------------------------------------
(* String literals of the program and of the input format.                 *)

\* 'Country Name'
CountryName == <<"C","o","u","n","t","r","y"," ","N","a","m","e">>

\* 'Country Code'
CountryCode == <<"C","o","u","n","t","r","y"," ","C","o","d","e">>

\* 'Series Name'
SeriesName == <<"S","e","r","i","e","s"," ","N","a","m","e">>

\* 'Series Code'
SeriesCode == <<"S","e","r","i","e","s"," ","C","o","d","e">>

\* 'Country'
Country == <<"C","o","u","n","t","r","y">>

\* 'Series'
Series == <<"S","e","r","i","e","s">>

\* 'Years'
Years == <<"Y","e","a","r","s">>

\* 'Year'
Year == <<"Y","e","a","r">>

\* 'Urban population growth (annual %)'
UrbanGrowthSeries == <<"U","r","b","a","n"," ","p","o","p","u","l","a","t",
    "i","o","n"," ","g","r","o","w","t","h"," ","(","a","n","n","u","a","l",
    " ","%",")">>

\* 'Population in the largest city (% of urban population)'
LargestCitySeries == <<"P","o","p","u","l","a","t","i","o","n"," ","i","n",
    " ","t","h","e"," ","l","a","r","g","e","s","t"," ","c","i","t","y"," ",
    "(","%"," ","o","f"," ","u","r","b","a","n"," ","p","o","p","u","l","a",
    "t","i","o","n",")">>

\* 'Rural population'
RuralSeries == <<"R","u","r","a","l"," ","p","o","p","u","l","a","t","i","o",
    "n">>

\* 'Urban population'
OtherSeries == <<"U","r","b","a","n"," ","p","o","p","u","l","a","t","i","o",
    "n">>

\* 'Urban Population Growth (Annual %)'
UrbanGrowthValue == <<"U","r","b","a","n"," ","P","o","p","u","l","a","t","i",
    "o","n"," ","G","r","o","w","t","h"," ","(","A","n","n","u","a","l"," ",
    "%",")">>

\* 'Rural Population'
RuralValue == <<"R","u","r","a","l"," ","P","o","p","u","l","a","t","i","o",
    "n">>

\* 'Data from database: World Development Indicators'
FooterNote == <<"D","a","t","a"," ","f","r","o","m"," ","d","a","t","a","b",
    "a","s","e",":"," ","W","o","r","l","d"," ","D","e","v","e","l","o","p",
    "m","e","n","t"," ","I","n","d","i","c","a","t","o","r","s">>

\* The header of a year column, 'YYYY [YRYYYY]'.
YearHeader(y) ==
    Decimal(y) \o <<" ", "[", "Y", "R">> \o Decimal(y) \o <<"]">>

\* The labels the loader drops (lines 18-25).
DropList ==
    <<Str(CountryCode), Str(SeriesCode)>>
        \o [k \in 1..12 |-> Str(YearHeader(2000 + k))]

\* value_vars of the three melts: '2015' .. '2019'.
ValueVars == [k \in 1..5 |-> Str(Decimal(2014 + k))]

\* The pie builder's year, '2019' (line 118).
PieYear == Str(Decimal(2019))

\* head(6) of the pie builder (line 124).
TopCount == 6

\* .iloc[: -5] of the loader (line 17).
TrailingRows == 5

-----------------------------------------------------------------------------
(* pandas operations on DataFrames.                                        *)

EmptyFrame == [columns |-> <<>>, index |-> <<>>, data |-> <<>>]

NRows(df) == Len(df.data)
NCols(df) == Len(df.columns)

HasColumn(df, label) == Contains(df.columns, label)

HasColumns(df, labels) ==
    \A k \in 1..Len(labels) : HasColumn(df, labels[k])

ColumnOf(df, label) == Position(df.columns, label)

\* The rows at the given positions, in that order, with their labels.
TakeRows(df, at) ==
    [columns |-> df.columns,
     index |-> [k \in 1..Len(at) |-> df.index[at[k]]],
     data |-> [k \in 1..Len(at) |-> df.data[at[k]]]]

\* The columns at the given positions, in that order.
TakeColumns(df, at) ==
    [columns |-> [k \in 1..Len(at) |-> df.columns[at[k]]],
     index |-> df.index,
     data |-> [i \in 1..NRows(df) |->
                  [k \in 1..Len(at) |-> df.data[i][at[k]]]]]

\* A slice bound k on a sequence of n items, resolved as Python does:
\* a negative bound counts from the end; a bound outside is clamped.
SliceIndex(n, k) ==
    IF k < 0 THEN (IF n + k < 0 THEN 0 ELSE n + k)
    ELSE (IF k > n THEN n ELSE k)

\* SliceError, were a bound before the start of the sequence an error.
SliceErrorStrict(n, k) == IF k < 0 /\ n + k < 0 THEN "IndexError" ELSE "none"

\* What slicing n items up to the bound k raises: nothing, a bound
\* outside the sequence is clamped.
SliceError(n, k) == "none"

\* df.iloc[start:stop]
Iloc(df, start, stop) ==
    LET lo == SliceIndex(NRows(df), start)
        hi == SliceIndex(NRows(df), stop)
    IN TakeRows(df, [k \in 1..(IF hi > lo THEN hi - lo ELSE 0) |-> lo + k])

\* pd.read_csv: the header line gives the column labels, the rows get a
\* RangeIndex, an empty field is NaN.  A column whose fields are all
\* numbers is parsed (int64 without empty fields, float64 with them); any
\* other column keeps its fields as strings.
ColumnDtype(f, j) ==
    LET n == Len(f.lines)
    IN IF n = 0 THEN "object"
       ELSE IF \A i \in 1..n : IsSignedDigits(f.lines[i][j]) THEN "int64"
       ELSE IF \A i \in 1..n :
                  f.lines[i][j] = <<>> \/ IsSignedDigits(f.lines[i][j])
            THEN "float64"
       ELSE "object"

ParseField(field, dtype) ==
    IF field = <<>> THEN NaN
    ELSE IF dtype = "int64" THEN PyInt(SignedValue(field))
    ELSE IF dtype = "float64" THEN Float(SignedValue(field))
    ELSE Str(field)

ReadCsv(f) ==
    LET dtype == [j \in 1..Len(f.header) |-> ColumnDtype(f, j)]
    IN [columns |-> [j \in 1..Len(f.header) |-> Str(f.header[j])],
        index |-> [i \in 1..Len(f.lines) |-> PyInt(i - 1)],
        data |-> [i \in 1..Len(f.lines) |->
                     [j \in 1..Len(f.header) |->
                         ParseField(f.lines[i][j], dtype[j])]]]

\* DropError, were the labels dropped with errors='ignore'.
DropErrorIgnored(df, labels) == "none"

\* What df.drop(columns=labels) raises: KeyError when a label is no column.
DropError(df, labels) ==
    IF HasColumns(df, labels) THEN "none" ELSE "KeyError"

\* DropColumns, were the last label left out of the list.
DropColumnsButLastLabel(df, labels) ==
    TakeColumns(df, SelectIndices(NCols(df),
        {j \in 1..NCols(df) :
            ~ Contains(SubSeq(labels, 1, Len(labels) - 1), df.columns[j])}))

\* df.drop(columns=labels), once every label is known to be a column.
DropColumns(df, labels) ==
    TakeColumns(df, SelectIndices(NCols(df),
        {j \in 1..NCols(df) : ~ Contains(labels, df.columns[j])}))

\* RenamedColumns, were the last field kept: col.split(' ')[-1].
RenamedColumnsLastField(columns) ==
    [j \in 1..Len(columns) |->
        Str(Split(columns[j][2], " ")[Len(Split(columns[j][2], " "))])]

\* [col.split(' ')[0] for col in df.columns]
RenamedColumns(columns) ==
    [j \in 1..Len(columns) |-> Str(Split(columns[j][2], " ")[1])]

\* df.T
Transpose(df) ==
    [columns |-> df.index,
     index |-> df.columns,
     data |-> [j \in 1..NCols(df) |->
                  [i \in 1..NRows(df) |-> df.data[i][j]]]]

\* df[label] = values: every column of that label is overwritten; without
\* one a column is appended.
SetColumn(df, label, values) ==
    IF HasColumn(df, label)
    THEN [df EXCEPT !.data =
            [i \in 1..NRows(df) |->
                [j \in 1..NCols(df) |->
                    IF df.columns[j] = label THEN values[i]
                    ELSE df.data[i][j]]]]
    ELSE [df EXCEPT !.columns = Append(df.columns, label),
                    !.data = [i \in 1..NRows(df) |->
                                 Append(df.data[i], values[i])]]

\* The cells of one column, top to bottom.
ColumnValues(df, label) ==
    [i \in 1..NRows(df) |-> df.data[i][ColumnOf(df, label)]]

\* FilterEquals, were the comparison left out.
FilterNothing(df, label, value) == df

\* df[df[label] == value]: a new frame of the matching rows (NaN matches
\* nothing), each keeping its row label.
FilterEquals(df, label, value) ==
    TakeRows(df, SelectIndices(NRows(df),
        {i \in 1..NRows(df) : df.data[i][ColumnOf(df, label)] = value}))

\* DropNa, were the column first made numeric with errors='coerce': the
\* rows whose text is no number go as well.
DropNaAndText(df, label) ==
    TakeRows(df, SelectIndices(NRows(df),
        {i \in 1..NRows(df) :
            /\ ~ IsNaN(df.data[i][ColumnOf(df, label)])
            /\ IsStr(df.data[i][ColumnOf(df, label)])
               => IsSignedDigits(df.data[i][ColumnOf(df, label)][2])}))

\* df.dropna(subset=[label]): a new frame without the rows that are NaN
\* in that column.
DropNa(df, label) ==
    TakeRows(df, SelectIndices(NRows(df),
        {i \in 1..NRows(df) : ~ IsNaN(df.data[i][ColumnOf(df, label)])}))

\* astype(float) on one cell: numbers and numeric strings convert, NaN
\* stays, any other string raises ValueError.
CanFloat(v) == IsNaN(v) \/ IsNumber(v) \/ (IsStr(v) /\ IsSignedDigits(v[2]))

ToFloat(v) ==
    IF IsNaN(v) THEN NaN
    ELSE IF IsNumber(v) THEN Float(v[2])
    ELSE Float(SignedValue(v[2]))

\* astype(int) on one cell that holds a number or its text.
ToInt(v) == IF IsNumber(v) THEN PyInt(v[2]) ELSE PyInt(SignedValue(v[2]))

\* pd.melt(df, id_vars=[id], value_vars=vars, var_name=.., value_name=..):
\* for each variable in turn, one row per row of df.
Melt(df, id, valueVars, varName, valueName) ==
    LET n == NRows(df)
    IN [columns |-> <<id, varName, valueName>>,
        index |-> [k \in 1..(n * Len(valueVars)) |-> PyInt(k - 1)],
        data |-> [k \in 1..(n * Len(valueVars)) |->
                    LET v == ((k - 1) \div n) + 1
                        i == ((k - 1) % n) + 1
                    IN <<df.data[i][ColumnOf(df, id)],
                         valueVars[v],
                         df.data[i][ColumnOf(df, valueVars[v])]>>]]

\* df.head(k)
HeadRows(df, k) == Iloc(df, 0, k)

\* DescendingOrders, were ascending=False left out.
RECURSIVE AscendingOrders(_, _)
AscendingOrders(values, left) ==
    IF left = {} THEN {<<>>}
    ELSE UNION {
           {<<i>> \o rest : rest \in AscendingOrders(values, left \ {i})} :
           i \in {i \in left : \A j \in left : values[i][2] <= values[j][2]}}

\* The orders of rows 1..n (as sequences of positions) in which the values
\* of a NaN-free float column do not increase: sort_values(ascending=False)
\* with the default, unstable, quicksort leaves the order of ties open.
RECURSIVE DescendingOrders(_, _)
DescendingOrders(values, left) ==
    IF left = {} THEN {<<>>}
    ELSE UNION {
           {<<i>> \o rest : rest \in DescendingOrders(values, left \ {i})} :
           i \in {i \in left : \A j \in left : values[j][2] <= values[i][2]}}

-----------------------------------------------------------------------------
(* process_world_bank_data (lines 6-34).                                   *)

\* An uncaught exception: the function returns nothing.
Raised(what) ==
    [error |-> what, wide |-> EmptyFrame, transposed |-> EmptyFrame]

\* transpose[transpose.index.str.isnumeric()] (line 30)
NumericRows(df) ==
    TakeRows(df, SelectIndices(NRows(df),
        {i \in 1..NRows(df) : StrIsNumeric(df.index[i])}))

\* TransposeWide, were 'Years' assigned before the index is made numeric
\* (lines 31 and 32 exchanged).
TransposeWideYearsFirst(wide) ==
    LET t0 == Transpose(wide)
        t1 == [t0 EXCEPT !.columns = t0.data[1]]
        t2 == Iloc(t1, 1, NRows(t1))
        t3 == NumericRows(t2)
        t4 == SetColumn(t3, Str(Years), t3.index)
    IN [t4 EXCEPT !.index = [i \in 1..NRows(t4) |-> ToNumeric(t4.index[i])]]

\* Lines 27-32: the transposed companion of the WideTable.  iloc[0] of a
\* frame without rows raises IndexError.
TransposeWide(wide) ==
    LET t0 == Transpose(wide)
        t1 == [t0 EXCEPT !.columns = t0.data[1]]
        t2 == Iloc(t1, 1, NRows(t1))
        t3 == NumericRows(t2)
        t4 == [t3 EXCEPT !.index = [i \in 1..NRows(t3) |->
                                       ToNumeric(t3.index[i])]]
    IN SetColumn(t4, Str(Years), t4.index)

ProcessWorldBankData(f) ==
    LET read == ReadCsv(f)
        raw == Iloc(read, 0, 0 - TrailingRows)
    IN IF SliceError(NRows(read), 0 - TrailingRows) # "none"
       THEN Raised(SliceError(NRows(read), 0 - TrailingRows))
       ELSE IF DropError(raw, DropList) # "none"
       THEN Raised(DropError(raw, DropList))
       ELSE LET dropped == DropColumns(raw, DropList)
                wide == [dropped EXCEPT
                            !.columns = RenamedColumns(dropped.columns)]
            IN IF NCols(wide) = 0 THEN Raised("IndexError")
               ELSE [error |-> "none", wide |-> wide,
                     transposed |-> TransposeWide(wide)]

-----------------------------------------------------------------------------
(* The chart builders (lines 36-163).                                      *)

\* df[label] = df[label].astype(..) with the conversion convert.
ConvertColumn(df, label, convert(_)) ==
    SetColumn(df, label,
              [i \in 1..NRows(df) |-> convert(df.data[i][ColumnOf(df, label)])])

\* The filter, melt and coercions shared by the bar, line and histogram
\* builders (lines 47-57, 80-90, 147-156): the LongTable, or the exception.
LongTable(df, series, valueName) ==
    IF ~ HasColumn(df, Str(Series)) THEN [error |-> "KeyError",
                                          table |-> EmptyFrame]
    ELSE
    LET rows == FilterEquals(df, Str(Series), Str(series))
    IN IF ~ (HasColumn(rows, Str(Country)) /\ HasColumns(rows, ValueVars))
       THEN [error |-> "KeyError", table |-> EmptyFrame]
       ELSE
       LET m == Melt(rows, Str(Country), ValueVars, Str(Year),
                     Str(valueName))
       IN IF \E i \in 1..NRows(m) : ~ CanFloat(m.data[i][3])
          THEN [error |-> "ValueError", table |-> EmptyFrame]
          ELSE [error |-> "none",
                table |-> ConvertColumn(
                              ConvertColumn(m, Str(valueName), ToFloat),
                              Str(Year), ToInt)]

\* Lines 116-121 of the pie builder: the rows of the largest-city series
\* without those that are NaN in '2019', that column coerced to float.
LargestCityData(df) ==
    IF ~ HasColumn(df, Str(Series)) THEN [error |-> "KeyError",
                                          table |-> EmptyFrame]
    ELSE
    LET rows == FilterEquals(df, Str(Series), Str(LargestCitySeries))
    IN IF ~ HasColumn(rows, PieYear)
       THEN [error |-> "KeyError", table |-> EmptyFrame]
       ELSE
       LET kept == DropNa(rows, PieYear)
       IN IF \E i \in 1..NRows(kept) :
                 ~ CanFloat(kept.data[i][ColumnOf(kept, PieYear)])
          THEN [error |-> "ValueError", table |-> EmptyFrame]
          ELSE [error |-> "none",
                table |-> ConvertColumn(kept, PieYear, ToFloat)]

\* Line 122: one outcome per order the descending sort may give.
SortedByYear(lcd) ==
    {TakeRows(lcd, order) :
        order \in DescendingOrders(ColumnValues(lcd, PieYear),
                                   1..NRows(lcd))}

\* Line 126: ax.pie(top_countries[year]) draws one wedge per value, in the
\* order of the rows; a negative size raises before anything is drawn.
PieWedges(top) ==
    IF \E i \in 1..NRows(top) : top.data[i][ColumnOf(top, PieYear)][2] < 0
    THEN <<>>
    ELSE ColumnValues(top, PieYear)

\* Lines 126-131: ax.pie raises ValueError on a negative wedge size, and
\* the legend reads top_countries['Country'].
PieDrawError(top) ==
    IF \E i \in 1..NRows(top) : top.data[i][ColumnOf(top, PieYear)][2] < 0
    THEN "ValueError"
    ELSE IF ~ HasColumn(top, Str(Country)) THEN "KeyError"
    ELSE "none"

\* FrameAfterLocalAssignment, were the local frame a view of the
\* caller's: the rows of the local frame are written through.
FrameAfterViewAssignment(df, local) ==
    [df EXCEPT !.data =
        [i \in 1..NRows(df) |->
            IF \E k \in 1..NRows(local) : local.index[k] = df.index[i]
            THEN [df.data[i] EXCEPT ![ColumnOf(df, PieYear)] =
                     local.data[CHOOSE k \in 1..NRows(local) :
                                   local.index[k] = df.index[i]]
                               [ColumnOf(local, PieYear)]]
            ELSE df.data[i]]]

\* The caller's frame after the pie builder assigned the coerced column
\* to its local largest_city_data (line 121): boolean indexing (line 116)
\* and dropna (line 120) each return a new frame, so the assignment does
\* not reach the caller's.
FrameAfterLocalAssignment(df, local) == df

-----------------------------------------------------------------------------
(* The input files the model is run on.  A file is its header line and     *)
(* its lines, each a sequence of fields, each field a character sequence.  *)

Letters == <<"A", "B", "C", "D", "E", "F", "G", "H", "I", "J", "K", "L">>

CountryText(i) == <<Letters[i]>>

\* '..', the World Bank's mark for no data, and any other non-numeric text.
Garbage == <<".", ".">>

\* A column of an input file: one of the four identifying columns
\* ("country", "ccode", "series", "scode", with year 0) or a year column.
Column(kind, year) == [kind |-> kind, year |-> year]

HeaderText(col) ==
    IF col.kind = "country" THEN CountryName
    ELSE IF col.kind = "ccode" THEN CountryCode
    ELSE IF col.kind = "series" THEN SeriesName
    ELSE IF col.kind = "scode" THEN SeriesCode
    ELSE YearHeader(col.year)

YearColumns == [k \in 1..19 |-> Column("year", 2000 + k)]

\* Country Name, Country Code, Series Name, Series Code, 2001 .. 2019.
BaseColumns ==
    <<Column("country", 0), Column("ccode", 0), Column("series", 0),
      Column("scode", 0)>> \o YearColumns

\* The same columns in the World Bank's other order, the series first.
SeriesFirstColumns ==
    <<Column("series", 0), Column("scode", 0), Column("country", 0),
      Column("ccode", 0)>> \o YearColumns

\* The 14 columns the loader drops, in the order of its list.
DroppedColumns ==
    <<Column("ccode", 0), Column("scode", 0)>>
        \o [k \in 1..12 |-> Column("year", 2000 + k)]

Without(columns, col) == SelectSeq(columns, LAMBDA x : x # col)

\* The field of a data row in a column.  A row is a record
\* [country, series, value], value[y] the text for the year y.
FieldFor(col, row) ==
    IF col.kind = "country" THEN row.country
    ELSE IF col.kind = "ccode" THEN row.country \o row.country \o row.country
    ELSE IF col.kind = "series" THEN row.series
    ELSE IF col.kind = "scode" THEN <<"S", "P">>
    ELSE row.value[col.year]

DataLine(columns, row) ==
    [j \in 1..Len(columns) |-> FieldFor(columns[j], row)]

\* The k-th of the 5 trailing lines: three empty ones, then two notes.
FooterLine(columns, k) ==
    [j \in 1..Len(columns) |-> IF j = 1 /\ k > 3 THEN FooterNote ELSE <<>>]

\* The last t of the 5 trailing lines.
Footers(columns, t) == [k \in 1..t |-> FooterLine(columns, 5 - t + k)]

CsvFile(columns, rows, t) ==
    [header |-> [j \in 1..Len(columns) |-> HeaderText(columns[j])],
     lines |-> [i \in 1..Len(rows) |-> DataLine(columns, rows[i])]
                   \o Footers(columns, t)]

\* The text of row i's cell for the year y when nothing is perturbed.
PlainValue(i, y) == Decimal(100 * i + (y - 2000))

PlainRow(i, series) ==
    [country |-> CountryText(i), series |-> series,
     value |-> [y \in 2001..2019 |-> PlainValue(i, y)]]

(* Family A: the shape of the file.  Every header variant, with d data     *)
(* rows (alternately of the urban-growth and the rural series) and the     *)
(* last t of the 5 trailing lines.                                         *)
ShapeColumns ==
    {BaseColumns, SeriesFirstColumns,
     Without(BaseColumns, Column("series", 0)),
     Without(BaseColumns, Column("country", 0)),
     Without(BaseColumns, Column("year", 2019)),
     DroppedColumns}
        \union {Without(BaseColumns, DroppedColumns[k]) : k \in 1..14}

ShapeRows(d) ==
    [i \in 1..d |->
        PlainRow(i, IF i % 2 = 1 THEN UrbanGrowthSeries ELSE RuralSeries)]

ShapeFiles ==
    {CsvFile(h, ShapeRows(d), t) :
        h \in ShapeColumns, d \in 0..MaxShapeRows, t \in 0..5}

(* Family B: the values the pie builder reads.  One urban-growth row, one  *)
(* rural row, one row of a series no builder reads, then MaxPieRows rows   *)
(* of the largest-city series, of which those in `missing' have no 2019    *)
(* value; the row `bad' (0: none; 3: the unread row; 4: the first row of   *)
(* the largest-city series) has '..' there.                                *)
PieValue(i) == Decimal(10 * (((3 * i) % 5) + 1))

PieRow(i, missing, bad) ==
    LET plain == PlainRow(i, IF i = 1 THEN UrbanGrowthSeries
                             ELSE IF i = 2 THEN RuralSeries
                             ELSE IF i = 3 THEN OtherSeries
                             ELSE LargestCitySeries)
    IN [plain EXCEPT !.value[2019] =
            IF i = bad THEN Garbage
            ELSE IF i \in missing THEN <<>>
            ELSE IF i > 3 THEN PieValue(i - 3)
            ELSE @]

PieFiles ==
    {CsvFile(BaseColumns,
             [i \in 1..(3 + MaxPieRows) |-> PieRow(i, missing, bad)], 5) :
        missing \in SUBSET (4..(3 + MaxPieRows)),
        bad \in {0, 3, 4}}

(* Family C: the rows the melts read.  MaxMeltRows data rows, each of any *)
(* of three series, all of one country or each of its own (so that a       *)
(* (Country, Series) pair may repeat), one of them possibly with an empty  *)
(* or a '..' 2017 field.                                                   *)
MeltSeries == {UrbanGrowthSeries, RuralSeries, OtherSeries}

MeltRow(i, same, series, bad, text) ==
    [country |-> CountryText(IF same THEN 1 ELSE i), series |-> series,
     value |-> [y \in 2001..2019 |->
                   IF i = bad /\ y = 2017 THEN text ELSE PlainValue(i, y)]]

MeltFiles ==
    {CsvFile(BaseColumns,
             [i \in 1..MaxMeltRows |-> MeltRow(i, same, s[i], bad, text)],
             5) :
        same \in BOOLEAN, bad \in 0..MaxMeltRows, text \in {<<>>, Garbage},
        s \in [1..MaxMeltRows -> MeltSeries]}

-----------------------------------------------------------------------------
(* The script (lines 166-216).                                             *)

\* After, were every call wrapped in a try/except that passes.
AfterSkipping(error, next) == next

\* The statement that runs after one that ended with `error': the script
\* has no try/except, so an exception ends the run.
After(error, next) == IF error = "none" THEN next ELSE "failed"

Init ==
    /\ file \in ShapeFiles \union PieFiles \union MeltFiles
    /\ pc = "load"
    /\ world_bank_data = EmptyFrame
    /\ transpose = EmptyFrame
    /\ melted = EmptyFrame
    /\ largest_city_data = EmptyFrame
    /\ top_countries = EmptyFrame
    /\ wedges = <<>>
    /\ calls = <<>>
    /\ raised = "none"
    /\ output = FALSE

\* Line 168.
Load ==
    /\ pc = "load"
    /\ \E r \in {ProcessWorldBankData(file)} :
          /\ world_bank_data' = r.wide
          /\ transpose' = r.transposed
          /\ pc' = After(r.error, "bar")
          /\ raised' = r.error
    /\ calls' = Append(calls, "process_world_bank_data")
    /\ UNCHANGED <<file, melted, largest_city_data, top_countries, wedges,
                   output>>

\* Line 175.
Bar ==
    /\ pc = "bar"
    /\ \E r \in {LongTable(world_bank_data, UrbanGrowthSeries,
                            UrbanGrowthValue)} :
          /\ melted' = r.table
          /\ pc' = After(r.error, "line")
          /\ raised' = r.error
    /\ calls' = Append(calls, "barplot_urban_growth_data")
    /\ UNCHANGED <<file, world_bank_data, transpose, largest_city_data,
                   top_countries, wedges, output>>

\* Line 176.
Line ==
    /\ pc = "line"
    /\ \E r \in {LongTable(world_bank_data, UrbanGrowthSeries,
                            UrbanGrowthValue)} :
          /\ melted' = r.table
          /\ pc' = After(r.error, "pie")
          /\ raised' = r.error
    /\ calls' = Append(calls, "lineplot_urban_growth_data")
    /\ UNCHANGED <<file, world_bank_data, transpose, largest_city_data,
                   top_countries, wedges, output>>

\* Line 177.
Pie ==
    /\ pc = "pie"
    /\ \E r \in {LargestCityData(world_bank_data)} :
          IF r.error # "none"
          THEN /\ pc' = After(r.error, "hist")
               /\ raised' = r.error
               /\ UNCHANGED <<world_bank_data, largest_city_data,
                              top_countries, wedges>>
          ELSE \E sorted \in SortedByYear(r.table) :
                  /\ largest_city_data' = sorted
                  /\ top_countries' = HeadRows(sorted, TopCount)
                  /\ world_bank_data' =
                         FrameAfterLocalAssignment(world_bank_data, r.table)
                  /\ wedges' = PieWedges(top_countries')
                  /\ pc' = After(PieDrawError(top_countries'), "hist")
                  /\ raised' = PieDrawError(top_countries')
    /\ calls' = Append(calls, "pie_chart_largest_city_population")
    /\ UNCHANGED <<file, transpose, melted, output>>

\* Line 178.
Hist ==
    /\ pc = "hist"
    /\ \E r \in {LongTable(world_bank_data, RuralSeries, RuralValue)} :
          /\ melted' = r.table
          /\ pc' = After(r.error, "save")
          /\ raised' = r.error
    /\ calls' = Append(calls, "histogram_rural_population")
    /\ UNCHANGED <<file, world_bank_data, transpose, largest_city_data,
                   top_countries, wedges, output>>

\* Lines 181-213: the title, the caption and plt.savefig.
Save ==
    /\ pc = "save"
    /\ output' = TRUE
    /\ pc' = "done"
    /\ UNCHANGED <<file, world_bank_data, transpose, melted,
                   largest_city_data, top_countries, wedges, calls, raised>>

Next == Load \/ Bar \/ Line \/ Pie \/ Hist \/ Save

Spec == Init /\ [][Next]_vars

-----------------------------------------------------------------------------
(* What the properties below read off a state.                             *)

LoaderCalled == Len(calls) >= 1

\* process_world_bank_data has just ended, with an exception or not.
LoaderEnded == Len(calls) = 1

LoaderFailed == LoaderEnded /\ pc = "failed"

\* process_world_bank_data has just returned its two tables.
LoaderReturned == LoaderEnded /\ pc = "bar"

\* The file has each of the 14 columns the loader drops.
FileHasDropped ==
    \A k \in 1..Len(DropList) : Contains(file.header, DropList[k][2])

\* The headers of the file that are not among the 14, in file order.
RetainedHeaders ==
    SelectSeq(file.header, LAMBDA h : ~ Contains(DropList, Str(h)))

\* The positions of those headers in the file.
RetainedPositions ==
    SelectIndices(Len(file.header),
        {j \in 1..Len(file.header) : ~ Contains(DropList, Str(file.header[j]))})

\* h is the header of a year column, 'YYYY [YRYYYY]'.
IsYearHeader(h) ==
    /\ Len(h) = 13
    /\ IsDigits(SubSeq(h, 1, 4))
    /\ h = YearHeader(DigitsValue(SubSeq(h, 1, 4)))

Whitespace == {" ", "\t", "\n", "\r"}

\* The first whitespace-delimited token of a text that has one.
FirstToken(h) ==
    LET start == CHOOSE i \in 1..Len(h) :
                     h[i] \notin Whitespace
                         /\ \A j \in 1..(i - 1) : h[j] \in Whitespace
        stop == CHOOSE i \in start..Len(h) :
                    /\ \A j \in start..i : h[j] \notin Whitespace
                    /\ i = Len(h) \/ h[i + 1] \in Whitespace
    IN SubSeq(h, start, stop)

\* A label that int() parses.
IntegerParseable(label) == IsStr(label) /\ IsSignedDigits(label[2])

-----------------------------------------------------------------------------
(* C1: for a file with at least 5 rows, the 14 named columns and (as any   *)
(* World Bank file) a column besides them, process_world_bank_data returns *)
(* a WideTable with exactly rows - 5 rows and columns - 14 columns: the    *)
(* last 5 rows and exactly the 14 columns are removed, every other cell    *)
(* is the one read from the file.                                          *)
C1_RowsAndColumnsRemoved ==
    (/\ LoaderEnded
     /\ Len(file.lines) >= 5
     /\ FileHasDropped
     /\ Len(RetainedHeaders) > 0)
    => /\ LoaderReturned
       /\ NRows(world_bank_data) = Len(file.lines) - 5
       /\ NCols(world_bank_data) = Len(file.header) - 14
       /\ \E raw \in {ReadCsv(file)}, at \in {RetainedPositions} :
             /\ world_bank_data.index =
                    SubSeq(raw.index, 1, Len(file.lines) - 5)
             /\ \A i \in 1..NRows(world_bank_data) :
                   \A j \in 1..NCols(world_bank_data) :
                      world_bank_data.data[i][j] = raw.data[i][at[j]]

C1_Witness ==
    /\ LoaderReturned
    /\ FileHasDropped
    /\ Len(file.lines) = 7
    /\ Len(file.header) = 23
    /\ NRows(world_bank_data) = 2
    /\ NCols(world_bank_data) = 9

(* C2: after process_world_bank_data, the header of every retained year    *)
(* column is the first whitespace-delimited token of its header in the     *)
(* file ('2015 [YR2015]' becomes '2015'), the columns in the file's order. *)
C2_YearHeadersTrimmed ==
    LoaderReturned
    => \E retained \in {RetainedHeaders} :
         /\ NCols(world_bank_data) = Len(retained)
         /\ \A j \in 1..Len(retained) :
               IsYearHeader(retained[j])
               => world_bank_data.columns[j] = Str(FirstToken(retained[j]))

C2_Witness ==
    /\ LoaderReturned
    /\ \E retained \in {RetainedHeaders} :
          \E j \in 1..Len(retained) :
             /\ retained[j] = YearHeader(2015)
             /\ world_bank_data.columns[j] = Str(<<"2", "0", "1", "5">>)

(* C3: the TransposedTable's index is exactly the integer-parseable labels *)
(* among the WideTable's column headers, coerced to integers ('Country'    *)
(* and 'Series' are not in it), and in every row its 'Years' column is     *)
(* that row's index value.                                                 *)
C3_TransposedIndex ==
    LoaderReturned
    => \E parseable \in {SelectSeq(world_bank_data.columns,
                                    IntegerParseable)} :
         /\ transpose.index =
                [k \in 1..Len(parseable) |->
                    PyInt(SignedValue(parseable[k][2]))]
         /\ HasColumn(transpose, Str(Years))
         /\ \A i \in 1..NRows(transpose) :
               /\ transpose.index[i][1] = "int"
               /\ transpose.data[i][ColumnOf(transpose, Str(Years))]
                      = transpose.index[i]

C3_Witness ==
    /\ LoaderReturned
    /\ HasColumn(world_bank_data, Str(Country))
    /\ HasColumn(world_bank_data, Str(Series))
    /\ NRows(transpose) = 7
    /\ NCols(transpose) = 3
    /\ transpose.index[1] = PyInt(2013)

(* C5: when the file lacks one of the 14 columns to remove, the run fails  *)
(* inside process_world_bank_data: no chart builder is invoked and the     *)
(* output file is never written.                                           *)
C5_MissingColumnIsFatal ==
    (LoaderCalled /\ ~ FileHasDropped)
    => /\ pc = "failed"
       /\ raised = "KeyError"
       /\ calls = <<"process_world_bank_data">>
       /\ ~ output

C5_Witness ==
    /\ ~ FileHasDropped
    /\ pc = "failed"
    /\ Len(file.lines) >= 6

(* C9, as claimed: process_world_bank_data fails when the file has fewer   *)
(* than 5 rows.                                                            *)
C9_FewRowsFail ==
    (LoaderEnded /\ Len(file.lines) < 5) => LoaderFailed

(* C9, amended: with fewer than 5 rows the drop of the last 5 rows raises  *)
(* nothing and leaves no row; the loader, given the 14 columns and one     *)
(* besides them, returns a WideTable with 0 rows and columns - 14 columns. *)
C9_FewRowsGiveEmptyTable ==
    (/\ LoaderEnded
     /\ Len(file.lines) < 5
     /\ FileHasDropped
     /\ Len(RetainedHeaders) > 0)
    => /\ LoaderReturned
       /\ NRows(world_bank_data) = 0
       /\ NCols(world_bank_data) = Len(file.header) - 14

C9_Witness ==
    /\ LoaderReturned
    /\ Len(file.lines) = 4
    /\ NRows(world_bank_data) = 0
    /\ NCols(world_bank_data) = 9

-----------------------------------------------------------------------------
(* The script and the chart builders.                                      *)

CallOrder ==
    <<"process_world_bank_data", "barplot_urban_growth_data",
      "lineplot_urban_growth_data", "pie_chart_largest_city_population",
      "histogram_rural_population">>

\* The calls made when the script is about to run the statement at.
CallsBefore(at) ==
    CASE at = "load" -> 0 [] at = "bar" -> 1 [] at = "line" -> 2
      [] at = "pie" -> 3 [] at = "hist" -> 4 [] at \in {"save", "done"} -> 5

(* C6: the loader and the four builders are invoked at most once each, in  *)
(* the order bar, line, pie, histogram; the image is written only after    *)
(* all four returned; a failure ends the run at the failing call: no later *)
(* builder runs, no panel is skipped, no file is written.                  *)
C6_FixedOrderNoPartialOutput ==
    /\ Len(calls) <= Len(CallOrder)
    /\ calls = SubSeq(CallOrder, 1, Len(calls))
    /\ output => (calls = CallOrder /\ raised = "none" /\ pc = "done")
    /\ raised # "none" => (pc = "failed" /\ ~ output)
    /\ pc = "failed" => raised # "none"
    /\ pc # "failed" => Len(calls) = CallsBefore(pc)

C6_Witness ==
    /\ pc = "failed"
    /\ Len(calls) = 4
    /\ raised = "ValueError"
    /\ ~ output

\* The rows (positions) of the WideTable that are of the series.
SeriesRows(series) ==
    {i \in 1..NRows(world_bank_data) :
        world_bank_data.data[i][ColumnOf(world_bank_data, Str(Series))]
            = Str(series)}

\* The WideTable's cell of row i in the column of that label.
WideCell(i, label) ==
    world_bank_data.data[i][ColumnOf(world_bank_data, label)]

\* The pie builder has been called / has returned.
PieEnded == Len(calls) >= 4

PieReturned == PieEnded /\ ~ (Len(calls) = 4 /\ pc = "failed")

(* C7: no chart builder changes the WideTable it is passed, the pie        *)
(* builder's float coercion of '2019' included.                            *)
C7_BuildersLeaveWideTable ==
    [][(pc \in {"bar", "line", "pie", "hist"})
          => (world_bank_data' = world_bank_data)]_vars

\* The pie builder returned, and its coercion changed its own table: a
\* row whose '2019' is a string in the WideTable is a float there.
C7_Witness ==
    /\ PieReturned
    /\ \E k \in 1..NRows(largest_city_data) :
          \E i \in 1..NRows(world_bank_data) :
             /\ world_bank_data.index[i] = largest_city_data.index[k]
             /\ IsStr(WideCell(i, PieYear))
             /\ largest_city_data.data[k][ColumnOf(largest_city_data, PieYear)]
                    = ToFloat(WideCell(i, PieYear))

\* The pie builder has just ended, with an exception or not.
PieJustEnded == Len(calls) = 4

\* The rows of the largest-city series whose '2019' is not NaN.
PieCandidates ==
    {i \in SeriesRows(LargestCitySeries) : ~ IsNaN(WideCell(i, PieYear))}

\* The row of the WideTable that carries the row label.
WideRow(label) ==
    CHOOSE i \in 1..NRows(world_bank_data) : world_bank_data.index[i] = label

TopValue(k) == top_countries.data[k][ColumnOf(top_countries, PieYear)][2]

(* C4: given a WideTable (its year cells numbers or NaN) in which at      *)
(* least 6 distinct countries have a 2019 value for the largest-city       *)
(* series, the pie builder selects exactly the 6 rows of the series with   *)
(* the highest 2019 values, in descending order of that value, and draws   *)
(* one wedge per selected row in that order.                               *)
C4_TopSixDescending ==
    (/\ PieJustEnded
     /\ \A i \in PieCandidates : CanFloat(WideCell(i, PieYear))
     /\ Cardinality({WideCell(i, Str(Country)) : i \in PieCandidates}) >= 6)
    => /\ pc = "hist"
       /\ NRows(top_countries) = 6
       /\ Cardinality({top_countries.index[k] : k \in 1..6}) = 6
       /\ \A k \in 1..6 :
             \E i \in PieCandidates :
                /\ world_bank_data.index[i] = top_countries.index[k]
                /\ TopValue(k) = ToFloat(WideCell(i, PieYear))[2]
                /\ top_countries.data[k][ColumnOf(top_countries, Str(Country))]
                       = WideCell(i, Str(Country))
       /\ \A k \in 1..5 : TopValue(k) >= TopValue(k + 1)
       /\ \A i \in PieCandidates :
             (\A k \in 1..6 :
                 top_countries.index[k] # world_bank_data.index[i])
             => ToFloat(WideCell(i, PieYear))[2] <= TopValue(6)
       /\ wedges = [k \in 1..6 |-> Float(TopValue(k))]

\* Seven rows have a value, so one is left out, and two of the six chosen
\* differ in value.
C4_Witness ==
    /\ PieJustEnded
    /\ pc = "hist"
    /\ Cardinality(PieCandidates) = 7
    /\ NRows(top_countries) = 6
    /\ Len(wedges) = 6
    /\ TopValue(1) > TopValue(6)

(* C8, as claimed: every row of the largest-city series whose '2019' is    *)
(* missing or not numeric is dropped before the coercion, so the builder   *)
(* returns, and the rows it coerced are the rows with a numeric '2019'.    *)
C8_NonNumericRowsDropped ==
    PieJustEnded
    => /\ pc = "hist"
       /\ {largest_city_data.index[k] : k \in 1..NRows(largest_city_data)}
              = {world_bank_data.index[i] :
                    i \in {c \in PieCandidates :
                              CanFloat(WideCell(c, PieYear))}}

(* C8, amended: every row of the largest-city series whose '2019' is       *)
(* missing (NaN) is dropped before the coercion, and only those: the       *)
(* coercion is applied to every other row, and a '2019' that is text but   *)
(* no number makes it raise ValueError, which ends the builder.            *)
C8_OnlyMissingRowsDropped ==
    PieJustEnded
    => IF \E i \in PieCandidates : ~ CanFloat(WideCell(i, PieYear))
       THEN pc = "failed" /\ raised = "ValueError"
       ELSE /\ pc = "hist"
            /\ NRows(largest_city_data) = Cardinality(PieCandidates)
            /\ {largest_city_data.index[k] :
                    k \in 1..NRows(largest_city_data)}
                   = {world_bank_data.index[i] : i \in PieCandidates}
            /\ \A k \in 1..NRows(largest_city_data) :
                  largest_city_data.data[k]
                      [ColumnOf(largest_city_data, PieYear)]
                    = ToFloat(WideCell(WideRow(largest_city_data.index[k]),
                                       PieYear))

\* A row without a 2019 value was dropped, and a row whose value is a
\* string in the WideTable was coerced.
C8_Witness ==
    /\ PieJustEnded
    /\ pc = "hist"
    /\ \E i \in SeriesRows(LargestCitySeries) : IsNaN(WideCell(i, PieYear))
    /\ \E i \in PieCandidates : IsStr(WideCell(i, PieYear))
    /\ NRows(largest_city_data) >= 1

\* A melt has just returned; the series it was made for.
JustMelted == pc \in {"line", "pie", "save"}

MeltedSeries == IF pc = "save" THEN RuralSeries ELSE UrbanGrowthSeries

MeltedYears == {2015, 2016, 2017, 2018, 2019}

\* The LongTable row that the WideTable's row i gives for the year y.
LongRow(i, y) ==
    <<WideCell(i, Str(Country)), PyInt(y), ToFloat(WideCell(i, Str(Decimal(y))))>>

\* Section 3's invariant of the WideTable.
OneRowPerCountrySeries ==
    \A i, j \in 1..NRows(world_bank_data) :
        (/\ i # j
         /\ WideCell(i, Str(Country)) = WideCell(j, Str(Country))
         /\ WideCell(i, Str(Series)) = WideCell(j, Str(Series)))
        => FALSE

(* C10: the LongTable of the bar, line and histogram builders has 5 rows   *)
(* for each WideTable row of the builder's series, one for each of the     *)
(* integer years 2015 .. 2019, and no row from any other series; with one  *)
(* WideTable row per (Country, Series), no (Country, Year) occurs twice.   *)
C10_LongTableRows ==
    JustMelted
    => \E rows \in {SeriesRows(MeltedSeries)} :
         /\ NRows(melted) = 5 * Cardinality(rows)
         /\ \A k \in 1..NRows(melted) :
               /\ melted.data[k][2] \in {PyInt(y) : y \in MeltedYears}
               /\ \E i \in rows :
                     melted.data[k] = LongRow(i, melted.data[k][2][2])
         /\ \A i \in rows, y \in MeltedYears :
               \E k \in 1..NRows(melted) : melted.data[k] = LongRow(i, y)
         /\ OneRowPerCountrySeries
            => \A k1, k2 \in 1..NRows(melted) :
                  (/\ melted.data[k1][1] = melted.data[k2][1]
                   /\ melted.data[k1][2] = melted.data[k2][2])
                  => k1 = k2

\* The bar builder melted two rows of two countries, next to a row of
\* another series.
C10_Witness ==
    /\ pc = "line"
    /\ NRows(melted) = 10
    /\ NRows(world_bank_data) = 3
    /\ OneRowPerCountrySeries
    /\ melted.data[1][1] # melted.data[2][1]
    /\ melted.data[1][2] = PyInt(2015)
    /\ melted.data[10][2] = PyInt(2019)

====
